---- MODULE Spec2Model ----
(***************************************************************************)
(* Model of src/app/page.tsx (component Home): the upload / process /      *)
(* download state machine, and the pure data transforms it runs            *)
(* (readCSVFile, matchData, the sortedData comparator, downloadAsCSV).     *)
(*                                                                         *)
(* A JavaScript string is a sequence of one-character strings, so that     *)
(* toLowerCase, trim, quoting and parsing are computed and not assumed.    *)
(* A row object is a function from column names to cell values; a key      *)
(* that is absent reads as undefined.                                      *)
(***************************************************************************)
EXTENDS Integers, Sequences, FiniteSets, TLC

VARIABLES
    mainFile,        \* useState mainFile: NoFile or a file
    referenceFile,   \* useState referenceFile: NoFile or a file
    processedData,   \* useState processedData: Null or a list of rows
    isProcessing,    \* useState isProcessing
    error,           \* useState error (a message kind, "" when none)
    pc,              \* position of the in-flight processFiles call
    procMain,        \* mainFile captured by the in-flight call's closure
    procRef,         \* referenceFile captured by the in-flight call's closure
    referenceData,   \* result of readExcelFile held by the in-flight call
    engine,          \* which Array.prototype.sort implementation runs the page
    lastOutcome,     \* how the most recent processFiles call ended
    stage,           \* position of the pure-transform pipeline
    inMain,          \* pipeline input: rows as readCSVFile returns them
    inRef,           \* pipeline input: rows as readExcelFile returns them
    matchedData,     \* pipeline: result of matchData
    sortedOut,       \* pipeline: result of the sortedData memo
    formattedData,   \* pipeline: the rows downloadAsCSV hands to Papa.unparse
    csvOut,          \* pipeline: the text downloadAsCSV puts in the Blob
    pass,            \* pipeline: 1, or 2 once the export was re-imported
    firstFormatted   \* pipeline: formattedData of pass 1, kept for pass 2

vars == <<mainFile, referenceFile, processedData, isProcessing, error, pc,
          procMain, procRef, referenceData, engine, lastOutcome, stage,
          inMain, inRef, matchedData, sortedOut, formattedData, csvOut, pass,
          firstFormatted>>

uiVars == <<mainFile, referenceFile, processedData, isProcessing, error, pc,
            procMain, procRef, referenceData, lastOutcome>>

pipeVars == <<stage, inMain, inRef, matchedData, sortedOut, formattedData,
              csvOut, pass, firstFormatted>>

----------------------------------------------------------------------------
(* Bounds *)

MaxMainRows == 3
MaxRefRows == 2
MaxRoundTripRows == 2

----------------------------------------------------------------------------
(* JavaScript values *)

\* undefined: a one-element sequence no string of characters can equal
Undef == <<"#undefined">>
Empty == <<>>

\* a nullable value: Null, or Some(v) holding v
Null == <<>>
Some(v) == <<v>>
Val(o) == o[1]

UpperChars == <<"A","B","C","D","E","F","G","H","I","J","K","L","M",
                "N","O","P","Q","R","S","T","U","V","W","X","Y","Z">>
LowerChars == <<"a","b","c","d","e","f","g","h","i","j","k","l","m",
                "n","o","p","q","r","s","t","u","v","w","x","y","z">>

toLowerChar(c) ==
    IF \E i \in 1..Len(UpperChars) : UpperChars[i] = c
    THEN LowerChars[CHOOSE i \in 1..Len(UpperChars) : UpperChars[i] = c]
    ELSE c

\* String.prototype.toLowerCase
toLowerCase(s) == [i \in 1..Len(s) |-> toLowerChar(s[i])]

isWhiteSpace(c) == c \in {" ", "\t", "\n", "\r"}

RECURSIVE trimStart(_)
trimStart(s) ==
    IF s # <<>> /\ isWhiteSpace(Head(s)) THEN trimStart(Tail(s)) ELSE s

RECURSIVE trimEnd(_)
trimEnd(s) ==
    IF s # <<>> /\ isWhiteSpace(s[Len(s)])
    THEN trimEnd(SubSeq(s, 1, Len(s) - 1))
    ELSE s

\* String.prototype.trim
trim(s) == trimEnd(trimStart(s))

\* JavaScript truthiness of a string-or-undefined value
Truthy(v) == v # Undef /\ v # <<>>

\* a || b
OrElse(a, b) == IF Truthy(a) THEN a ELSE b

\* row[key], undefined when the key is absent
Get(row, key) == IF key \in DOMAIN row THEN row[key] ELSE Undef

NotFound == <<"N","o","t"," ","F","o","u","n","d">>
FoundButNoClassroom ==
    <<"F","o","u","n","d"," ","b","u","t"," ","n","o"," ",
      "c","l","a","s","s","r","o","o","m">>

----------------------------------------------------------------------------
(* matchData, lines 105-123 *)

MainKeys == {"Course", "Full Name", "Exam Marks", "Total"}
OutKeys == MainKeys \cup {"Classroom"}

\* mutant: the name is lower-cased but not trimmed
nameKey_NoTrim(v) == IF v = Undef THEN Undef ELSE toLowerCase(v)

\* x?.toLowerCase().trim()
nameKey(v) == IF v = Undef THEN Undef ELSE trim(toLowerCase(v))

\* the callback of referenceData.find
isMatch(student, refStudent) ==
    nameKey(Get(refStudent, "Corrected Name")) = nameKey(Get(student, "Full Name"))

\* mutant: the last matching row is taken instead of the first
findIndex_Last(student, refData) ==
    LET hits == {i \in 1..Len(refData) : isMatch(student, refData[i])}
    IN  IF hits = {} THEN 0 ELSE CHOOSE i \in hits : \A j \in hits : i >= j

\* referenceData.find: index of the first row that matches, 0 when none does
findIndex(student, refData) ==
    LET hits == {i \in 1..Len(refData) : isMatch(student, refData[i])}
    IN  IF hits = {} THEN 0 ELSE CHOOSE i \in hits : \A j \in hits : i <= j

\* the field of the matched row that line 119 reads
readClassroom(matchedStudent) == Get(matchedStudent, "classroom")

\* mutant: a matched row without classroom keeps an empty Classroom
matchStudent_NoFallback(student, refData) ==
    LET k == findIndex(student, refData)
    IN  [key \in OutKeys |->
            IF key = "Classroom"
            THEN IF k # 0
                 THEN OrElse(readClassroom(refData[k]), Empty)
                 ELSE NotFound
            ELSE OrElse(Get(student, key), Empty)]

matchStudent(student, refData) ==
    LET k == findIndex(student, refData)
    IN  [key \in OutKeys |->
            IF key = "Classroom"
            THEN IF k # 0
                 THEN OrElse(readClassroom(refData[k]), FoundButNoClassroom)
                 ELSE NotFound
            ELSE OrElse(Get(student, key), Empty)]

matchData(mainData, refData) ==
    [i \in 1..Len(mainData) |-> matchStudent(mainData[i], refData)]

----------------------------------------------------------------------------
(* sortedData, lines 125-139 *)

\* collation order of the characters the model uses (after toLowerCase)
CollationOrder ==
    <<" ", "\"", ",", "=", "0","1","2","3","4","5","6","7","8","9">>
    \o LowerChars

rank(c) == CHOOSE i \in 1..Len(CollationOrder) : CollationOrder[i] = c

RECURSIVE compareFrom(_, _, _)
compareFrom(x, y, i) ==
    IF i > Len(x) /\ i > Len(y) THEN 0
    ELSE IF i > Len(x) THEN -1
    ELSE IF i > Len(y) THEN 1
    ELSE IF rank(x[i]) < rank(y[i]) THEN -1
    ELSE IF rank(x[i]) > rank(y[i]) THEN 1
    ELSE compareFrom(x, y, i + 1)

\* String.prototype.localeCompare on lowercased strings
localeCompare(x, y) == compareFrom(x, y, 1)

notFoundLower == <<"n","o","t"," ","f","o","u","n","d">>
foundButNoClassroomLower ==
    <<"f","o","u","n","d"," ","b","u","t"," ","n","o"," ",
      "c","l","a","s","s","r","o","o","m">>

\* a.Classroom?.toLowerCase() || ''
classroomLower(a) ==
    LET c == Get(a, "Classroom")
    IN  OrElse(IF c = Undef THEN Undef ELSE toLowerCase(c), Empty)

\* mutant: the comparator tests only its first argument for 'not found'
compareFn_FirstArgumentOnly(a, b) ==
    LET classroomA == classroomLower(a)
        classroomB == classroomLower(b)
    IN  IF classroomA = notFoundLower THEN 1
        ELSE IF classroomA = foundButNoClassroomLower THEN 1
        ELSE IF classroomB = foundButNoClassroomLower THEN -1
        ELSE localeCompare(classroomA, classroomB)

\* the comparator handed to sort, lines 128-138
compareFn(a, b) ==
    LET classroomA == classroomLower(a)
        classroomB == classroomLower(b)
    IN  IF classroomA = notFoundLower THEN 1
        ELSE IF classroomB = notFoundLower THEN -1
        ELSE IF classroomA = foundButNoClassroomLower THEN 1
        ELSE IF classroomB = foundButNoClassroomLower THEN -1
        ELSE localeCompare(classroomA, classroomB)

(* Array.prototype.sort.  The comparator is not a consistent comparator    *)
(* (compareFn(a, a) = 1 for a sentinel row), so ECMAScript leaves the      *)
(* order implementation-defined: the model carries the two insertion       *)
(* sorts browsers run on short arrays, which differ in the order of the    *)
(* comparator's arguments.                                                 *)

Engines == {"v8", "spidermonkey"}

Reverse(s) == [i \in 1..Len(s) |-> s[Len(s) + 1 - i]]

\* s with the element at index from moved to index to (to <= from)
MoveTo(s, from, to) ==
    SubSeq(s, 1, to - 1) \o <<s[from]>> \o SubSeq(s, to, from - 1)
        \o SubSeq(s, from + 1, Len(s))

\* V8 CountAndMakeRun: length of the initial run
RECURSIVE runExtend(_, _, _)
runExtend(arr, idx, isDescending) ==
    IF idx > Len(arr) THEN idx - 1
    ELSE LET order == compareFn(arr[idx], arr[idx - 1])
         IN  IF (isDescending /\ order >= 0) \/ (~isDescending /\ order < 0)
             THEN idx - 1
             ELSE runExtend(arr, idx + 1, isDescending)

\* V8 BinaryInsertionSort: the binary search for the pivot's place
RECURSIVE binarySearch(_, _, _, _)
binarySearch(arr, pivot, left, right) ==
    IF left < right
    THEN LET mid == left + ((right - left) \div 2)
         IN  IF compareFn(pivot, arr[mid]) < 0
             THEN binarySearch(arr, pivot, left, mid)
             ELSE binarySearch(arr, pivot, mid + 1, right)
    ELSE left

RECURSIVE BinaryInsertionSort(_, _)
BinaryInsertionSort(arr, start) ==
    IF start > Len(arr) THEN arr
    ELSE BinaryInsertionSort(
             MoveTo(arr, start, binarySearch(arr, arr[start], 1, start)),
             start + 1)

\* V8 ArrayTimSort on an array shorter than 64: one run, then insertion
ArrayTimSort(arr) ==
    IF Len(arr) < 2 THEN arr
    ELSE LET isDescending == compareFn(arr[2], arr[1]) < 0
             runLength == runExtend(arr, 3, isDescending)
             made == IF isDescending
                     THEN Reverse(SubSeq(arr, 1, runLength))
                              \o SubSeq(arr, runLength + 1, Len(arr))
                     ELSE arr
         IN  BinaryInsertionSort(made, runLength + 1)

\* SpiderMonkey InsertionSort: walk back while comparefn(swap, item) > 0
RECURSIVE shiftBack(_, _, _)
shiftBack(arr, item, j) ==
    IF j >= 1 /\ ~(compareFn(arr[j], item) <= 0)
    THEN shiftBack(arr, item, j - 1)
    ELSE j + 1

RECURSIVE InsertionSort(_, _)
InsertionSort(arr, i) ==
    IF i > Len(arr) THEN arr
    ELSE InsertionSort(MoveTo(arr, i, shiftBack(arr, arr[i], i - 1)), i + 1)

\* [...processedData].sort(compareFn)
ArraySort(e, arr) ==
    IF e = "v8" THEN ArrayTimSort(arr) ELSE InsertionSort(arr, 2)

\* the useMemo of lines 125-139
sortedData(e, data) ==
    IF data = Null THEN Null ELSE Some(ArraySort(e, Val(data)))

----------------------------------------------------------------------------
(* downloadAsCSV, lines 141-169 *)

Quote == "\""
Comma == ","
CRLF == <<"\r", "\n">>
BOM == "\\uFEFF"

\* the order in which the object literal of lines 144-153 lists its keys
ColumnOrder == <<"Course", "Full Name", "Exam Marks", "Total", "Classroom">>

\* the characters of the column names the page writes or looks up
KeyChars(key) ==
    CASE key = "Course" -> <<"C","o","u","r","s","e">>
      [] key = "course" -> <<"c","o","u","r","s","e">>
      [] key = "Full Name" -> <<"F","u","l","l"," ","N","a","m","e">>
      [] key = "full name" -> <<"f","u","l","l"," ","n","a","m","e">>
      [] key = "Full name" -> <<"F","u","l","l"," ","n","a","m","e">>
      [] key = "Exam Marks" -> <<"E","x","a","m"," ","M","a","r","k","s">>
      [] key = "exam marks" -> <<"e","x","a","m"," ","m","a","r","k","s">>
      [] key = "Exam marks" -> <<"E","x","a","m"," ","m","a","r","k","s">>
      [] key = "Total" -> <<"T","o","t","a","l">>
      [] key = "total" -> <<"t","o","t","a","l">>
      [] key = "Classroom" -> <<"C","l","a","s","s","r","o","o","m">>

KnownKeys ==
    {"Course", "course", "Full Name", "full name", "Full name", "Exam Marks",
     "exam marks", "Exam marks", "Total", "total", "Classroom"}

\* `${v}`
toString(v) ==
    IF v = Undef THEN <<"u","n","d","e","f","i","n","e","d">> ELSE v

\* mutant: the wrapper loses its leading =
wrapAsFormula_NoPrefix(v) == <<Quote>> \o toString(v) \o <<Quote>>

\* the template literal of line 152
wrapAsFormula(v) == <<"=", Quote>> \o toString(v) \o <<Quote>>

\* one element of formattedData, lines 144-153
formatStudent(student) ==
    [key \in OutKeys |->
        IF key = "Classroom"
        THEN IF Get(student, "Classroom") = NotFound
                \/ Get(student, "Classroom") = FoundButNoClassroom
             THEN Get(student, "Classroom")
             ELSE wrapAsFormula(Get(student, "Classroom"))
        ELSE OrElse(Get(student, key), Empty)]

formatData(sorted) == [i \in 1..Len(sorted) |-> formatStudent(sorted[i])]

\* Papa.unparse: str.replace(/"/g, '""')
RECURSIVE escapeQuotes(_)
escapeQuotes(s) ==
    IF s = <<>> THEN <<>>
    ELSE (IF Head(s) = Quote THEN <<Quote, Quote>> ELSE <<Head(s)>>)
             \o escapeQuotes(Tail(s))

\* mutant: fields are written without the enclosing quotes
safe_Unquoted(s) == escapeQuotes(s)

\* Papa.unparse safe() under quotes: true
safe(s) == <<Quote>> \o escapeQuotes(s) \o <<Quote>>

RECURSIVE joinWith(_, _)
joinWith(parts, sep) ==
    IF parts = <<>> THEN <<>>
    ELSE IF Len(parts) = 1 THEN parts[1]
    ELSE parts[1] \o sep \o joinWith(Tail(parts), sep)

unparseLine(cells) ==
    joinWith([i \in 1..Len(cells) |-> safe(cells[i])], <<Comma>>)

\* Papa.unparse(formattedData, {quotes: true, escapeChar: '"', delimiter: ','})
unparse(data) ==
    IF data = <<>> THEN <<>>
    ELSE joinWith(
             <<unparseLine([c \in 1..Len(ColumnOrder) |-> KeyChars(ColumnOrder[c])])>>
             \o [i \in 1..Len(data) |->
                    unparseLine([c \in 1..Len(ColumnOrder) |->
                                    data[i][ColumnOrder[c]]])],
             CRLF)

\* the text of the Blob of line 161
csvBlob(data) == <<BOM>> \o unparse(data)

----------------------------------------------------------------------------
(* readCSVFile, lines 85-103 *)

\* FileReader's UTF-8 decode drops a leading byte-order mark
decode(text) == IF text # <<>> /\ Head(text) = BOM THEN Tail(text) ELSE text

\* Papa guessLineEndings
newlineOf(text) ==
    IF \E i \in 1..Len(text) : text[i] = "\r" THEN CRLF ELSE <<"\n">>

isNewlineAt(text, j, nl) ==
    /\ j + Len(nl) - 1 <= Len(text)
    /\ SubSeq(text, j, j + Len(nl) - 1) = nl

\* Papa Parser: a quoted field, from the character after the opening quote
RECURSIVE scanQuoted(_, _, _, _)
scanQuoted(text, j, acc, nl) ==
    IF j > Len(text) THEN [value |-> acc, next |-> j]
    ELSE IF text[j] = Quote
    THEN IF j < Len(text) /\ text[j + 1] = Quote
         THEN scanQuoted(text, j + 2, Append(acc, Quote), nl)
         ELSE IF j = Len(text) \/ text[j + 1] = Comma
                 \/ isNewlineAt(text, j + 1, nl)
         THEN [value |-> acc, next |-> j + 1]
         ELSE scanQuoted(text, j + 1, Append(acc, Quote), nl)
    ELSE scanQuoted(text, j + 1, Append(acc, text[j]), nl)

\* Papa Parser: an unquoted field
RECURSIVE scanPlain(_, _, _, _)
scanPlain(text, j, acc, nl) ==
    IF j > Len(text) \/ text[j] = Comma \/ isNewlineAt(text, j, nl)
    THEN [value |-> acc, next |-> j]
    ELSE scanPlain(text, j + 1, Append(acc, text[j]), nl)

\* Papa Parser.parse, from the start of a field
RECURSIVE parseFrom(_, _, _, _, _)
parseFrom(text, i, row, rows, nl) ==
    LET f == IF i <= Len(text) /\ text[i] = Quote
             THEN scanQuoted(text, i + 1, <<>>, nl)
             ELSE scanPlain(text, i, <<>>, nl)
    IN  IF f.next > Len(text) THEN Append(rows, Append(row, f.value))
        ELSE IF text[f.next] = Comma
        THEN parseFrom(text, f.next + 1, Append(row, f.value), rows, nl)
        ELSE parseFrom(text, f.next + Len(nl), <<>>,
                       Append(rows, Append(row, f.value)), nl)

parse(text) ==
    IF text = <<>> THEN <<>> ELSE parseFrom(text, 1, <<>>, <<>>, newlineOf(text))

\* Papa header: true: a data row as an object keyed by the header row
rowObject(header, cells) ==
    LET cols == {c \in 1..Len(header) :
                    /\ c <= Len(cells)
                    /\ \E k \in KnownKeys : KeyChars(k) = header[c]}
        keyAt(c) == CHOOSE k \in KnownKeys : KeyChars(k) = header[c]
    IN  [k \in {keyAt(c) : c \in cols} |->
            cells[CHOOSE c \in cols : keyAt(c) = k]]

\* results.data of Papa.parse(file, {header: true})
parseWithHeader(text) ==
    LET rows == parse(decode(text))
    IN  IF rows = <<>> THEN <<>>
        ELSE [i \in 1..(Len(rows) - 1) |-> rowObject(rows[1], rows[i + 1])]

\* a || b || c || ''
firstTruthy(row, keys) ==
    LET hits == {i \in 1..Len(keys) : Truthy(Get(row, keys[i]))}
    IN  IF hits = {} THEN Empty
        ELSE row[keys[CHOOSE i \in hits : \A j \in hits : i <= j]]

\* the map of lines 92-97
filterRow(row) ==
    [key \in MainKeys |->
        CASE key = "Course" -> firstTruthy(row, <<"Course", "course">>)
          [] key = "Full Name" ->
                firstTruthy(row, <<"Full Name", "full name", "Full name">>)
          [] key = "Exam Marks" ->
                firstTruthy(row, <<"Exam Marks", "exam marks", "Exam marks">>)
          [] key = "Total" -> firstTruthy(row, <<"Total", "total">>)]

readCSVFile(text) ==
    LET data == parseWithHeader(text)
    IN  [i \in 1..Len(data) |-> filterRow(data[i])]

----------------------------------------------------------------------------
(* Inputs of the pure transforms *)

NoFile == Null

mainRow(course, fullName, examMarks, total) ==
    [key \in MainKeys |->
        CASE key = "Course" -> course
          [] key = "Full Name" -> fullName
          [] key = "Exam Marks" -> examMarks
          [] key = "Total" -> total]

\* rows as readCSVFile returns them: the four keys, each a string
MainRows ==
    { mainRow(<<"c","1">>, <<" ","a","L"," ">>, <<"9">>, <<"1","9">>),
      mainRow(<<>>, <<"B","o",",",Quote,"J">>, <<"8">>, <<"8">>),
      mainRow(<<"c","2">>, <<"Z","e","d">>, <<>>, <<"0">>) }

refRow(name, upperClassroom, lowerClassroom) ==
    [key \in {k \in {"Corrected Name"} : name # Undef}
             \cup {k \in {"Classroom"} : upperClassroom # Undef}
             \cup {k \in {"classroom"} : lowerClassroom # Undef} |->
        CASE key = "Corrected Name" -> name
          [] key = "Classroom" -> upperClassroom
          [] key = "classroom" -> lowerClassroom]

\* rows as sheet_to_json returns them: a key is absent when its cell is empty
RefRows ==
    { refRow(<<"a","l">>, <<"1","0","1">>, Undef),
      refRow(<<"A","L"," ">>, Undef, <<"B","2">>),
      refRow(<<"b","o",",",Quote,"j">>, <<"a","1">>, <<"a","1">>),
      refRow(<<" ","A","l">>, Undef, <<"A","1">>),
      refRow(<<"a","l">>, <<>>, <<>>),
      refRow(Undef, Undef, <<"7">>) }

SeqsUpTo(S, n) == UNION {[1..k -> S] : k \in 0..n}

----------------------------------------------------------------------------
(* The pipeline of the pure transforms: match, sort, export, re-import *)

UiIdle ==
    /\ mainFile = NoFile
    /\ referenceFile = NoFile
    /\ processedData = Null
    /\ isProcessing = FALSE
    /\ error = ""
    /\ pc = "idle"
    /\ procMain = NoFile
    /\ procRef = NoFile
    /\ referenceData = Null
    /\ lastOutcome = "none"

PipeInit ==
    /\ UiIdle
    /\ engine \in Engines
    /\ stage = "input"
    /\ pass = 1
    /\ inMain \in SeqsUpTo(MainRows, MaxMainRows)
    /\ inRef \in SeqsUpTo(RefRows, MaxRefRows)
    /\ matchedData = Null
    /\ sortedOut = Null
    /\ formattedData = Null
    /\ csvOut = Null
    /\ firstFormatted = Null

MatchStep ==
    /\ stage = "input"
    /\ matchedData' = Some(matchData(inMain, inRef))
    /\ stage' = "matched"
    /\ UNCHANGED <<uiVars, engine, inMain, inRef, sortedOut, formattedData,
                   csvOut, pass, firstFormatted>>

SortStep ==
    /\ stage = "matched"
    /\ sortedOut' = sortedData(engine, matchedData)
    /\ stage' = "sorted"
    /\ UNCHANGED <<uiVars, engine, inMain, inRef, matchedData, formattedData,
                   csvOut, pass, firstFormatted>>

DownloadStep ==
    /\ stage = "sorted"
    /\ formattedData' = Some(formatData(Val(sortedOut)))
    /\ csvOut' = Some(csvBlob(formatData(Val(sortedOut))))
    /\ stage' = "downloaded"
    /\ UNCHANGED <<uiVars, engine, inMain, inRef, matchedData, sortedOut, pass,
                   firstFormatted>>

\* the exported file is selected as the main CSV and read back
ReimportStep ==
    /\ stage = "downloaded"
    /\ pass = 1
    /\ Len(inMain) <= MaxRoundTripRows
    /\ inMain' = readCSVFile(Val(csvOut))
    /\ firstFormatted' = formattedData
    /\ pass' = 2
    /\ stage' = "input"
    /\ matchedData' = Null
    /\ sortedOut' = Null
    /\ formattedData' = Null
    /\ csvOut' = Null
    /\ UNCHANGED <<uiVars, engine, inRef>>

PipeNext == MatchStep \/ SortStep \/ DownloadStep \/ ReimportStep

PipeSpec == PipeInit /\ [][PipeNext]_vars

----------------------------------------------------------------------------
(* Files the user can select *)

\* unquoted, LF line ends, a lower-case header variant, columns reordered
csvPlain ==
    <<"f","u","l","l"," ","n","a","m","e",",","C","o","u","r","s","e","\n",
      " ","a","L"," ",",","c","1","\n","Z","e","d",",","c","2","\n",
      "x",",","c","3">>

\* quoted, CRLF line ends, a trailing line end, columns missing
csvQuoted ==
    <<Quote,"F","u","l","l"," ","N","a","m","e",Quote,",",Quote,"T","o","t",
      "a","l",Quote,"\r","\n",Quote,"B","o",",",Quote,Quote,"J",Quote,",",
      Quote,"8",Quote,"\r","\n">>

\* a file is unreadable (FileReader fails) or has a text
MainFiles ==
    { [readable |-> FALSE, text |-> <<>>],
      [readable |-> TRUE, text |-> csvPlain],
      [readable |-> TRUE, text |-> csvQuoted] }

\* readCSVFile of each selectable file, tabulated
mainDataOf == [file \in MainFiles |-> readCSVFile(file.text)]

\* a workbook is unreadable (XLSX.read throws) or decodes to its rows
RefFiles ==
    { [readable |-> FALSE, rows |-> <<>>],
      [readable |-> TRUE,
       rows |-> <<refRow(<<"a","l">>, <<"1","0","1">>, Undef),
                  refRow(<<"b","o",",",Quote,"j">>, <<"a","1">>, <<"a","1">>),
                  refRow(<<"z","e","d">>, Undef, <<"7">>)>>],
      [readable |-> TRUE,
       rows |-> <<refRow(<<"A","L"," ">>, Undef, <<"B","2">>)>>] }

\* matchData on the data the selectable files give, tabulated
matchDataOf ==
    [mainData \in {mainDataOf[file] : file \in MainFiles},
     refData \in {file.rows : file \in RefFiles} |->
        matchData(mainData, refData)]

----------------------------------------------------------------------------
(* The page: Home, lines 22-211 *)

PipeIdle ==
    /\ stage = "page"
    /\ pass = 1
    /\ inMain = <<>>
    /\ inRef = <<>>
    /\ matchedData = Null
    /\ sortedOut = Null
    /\ formattedData = Null
    /\ firstFormatted = Null

pageFrame == <<engine, stage, inMain, inRef, matchedData, sortedOut,
               formattedData, pass, firstFormatted>>

Init ==
    /\ UiIdle
    /\ PipeIdle
    /\ csvOut = Null
    /\ engine \in Engines

\* lines 30-36; a cancelled file dialog (no file) changes nothing
handleMainFileUpload ==
    /\ \E file \in MainFiles : mainFile' = Some(file)
    /\ error' = ""
    /\ UNCHANGED <<referenceFile, processedData, isProcessing, pc, procMain,
                   procRef, referenceData, lastOutcome, csvOut, pageFrame>>

\* lines 38-44
handleReferenceFileUpload ==
    /\ \E file \in RefFiles : referenceFile' = Some(file)
    /\ error' = ""
    /\ UNCHANGED <<mainFile, processedData, isProcessing, pc, procMain,
                   procRef, referenceData, lastOutcome, csvOut, pageFrame>>

\* processFiles, lines 47-50: the early return when a file is missing.
\* (Line 281 also disables the button in this state; the handler keeps
\* its own guard, and this is the handler run on that branch.)
processFilesMissing ==
    /\ mainFile = NoFile \/ referenceFile = NoFile
    /\ error' = "Please upload both files"
    /\ lastOutcome' = "missing"
    /\ UNCHANGED <<mainFile, referenceFile, processedData, isProcessing, pc,
                   procMain, procRef, referenceData, csvOut, pageFrame>>

\* processFiles, lines 52-56, up to the first await; the button of
\* lines 279-281 is disabled while isProcessing
processFilesStart ==
    /\ mainFile # NoFile /\ referenceFile # NoFile
    /\ ~isProcessing
    /\ pc = "idle"
    /\ isProcessing' = TRUE
    /\ error' = ""
    /\ procMain' = mainFile
    /\ procRef' = referenceFile
    /\ pc' = "readExcelFile"
    /\ lastOutcome' = "running"
    /\ UNCHANGED <<mainFile, referenceFile, processedData, referenceData,
                   csvOut, pageFrame>>

\* mutant: the catch without the finally
failProcessing_NoFinally ==
    /\ error' = "Error processing files"
    /\ isProcessing' = isProcessing
    /\ pc' = "idle"
    /\ lastOutcome' = "failed"
    /\ procMain' = NoFile
    /\ procRef' = NoFile
    /\ UNCHANGED <<mainFile, referenceFile, processedData, csvOut, pageFrame>>

\* the catch and finally of lines 60-64
failProcessing ==
    /\ error' = "Error processing files"
    /\ isProcessing' = FALSE
    /\ pc' = "idle"
    /\ lastOutcome' = "failed"
    /\ procMain' = NoFile
    /\ procRef' = NoFile
    /\ UNCHANGED <<mainFile, referenceFile, processedData, csvOut, pageFrame>>

\* readExcelFile resolves (lines 70-75) and readCSVFile is called (line 57)
readExcelFileLoaded ==
    /\ pc = "readExcelFile"
    /\ Val(procRef).readable
    /\ referenceData' = Some(Val(procRef).rows)
    /\ pc' = "readCSVFile"
    /\ UNCHANGED <<mainFile, referenceFile, processedData, isProcessing, error,
                   procMain, procRef, lastOutcome, csvOut, pageFrame>>

\* readExcelFile rejects (lines 76-80)
readExcelFileFailed ==
    /\ pc = "readExcelFile"
    /\ ~Val(procRef).readable
    /\ failProcessing
    /\ UNCHANGED referenceData

\* readCSVFile resolves; lines 58-59 and the finally of line 63
readCSVFileLoaded ==
    /\ pc = "readCSVFile"
    /\ Val(procMain).readable
    /\ processedData' =
           Some(matchDataOf[mainDataOf[Val(procMain)], Val(referenceData)])
    /\ isProcessing' = FALSE
    /\ pc' = "idle"
    /\ lastOutcome' = "success"
    /\ procMain' = NoFile
    /\ procRef' = NoFile
    /\ UNCHANGED <<mainFile, referenceFile, error, referenceData, csvOut,
                   pageFrame>>

\* readCSVFile rejects (line 100)
readCSVFileFailed ==
    /\ pc = "readCSVFile"
    /\ ~Val(procMain).readable
    /\ failProcessing
    /\ UNCHANGED referenceData

\* downloadAsCSV, lines 141-169; the button exists only with sortedData
downloadAsCSV ==
    /\ sortedData(engine, processedData) # Null
    /\ csvOut' =
           Some(csvBlob(formatData(Val(sortedData(engine, processedData)))))
    /\ UNCHANGED <<uiVars, pageFrame>>

Next ==
    \/ handleMainFileUpload
    \/ handleReferenceFileUpload
    \/ processFilesMissing
    \/ processFilesStart
    \/ readExcelFileLoaded
    \/ readExcelFileFailed
    \/ readCSVFileLoaded
    \/ readCSVFileFailed
    \/ downloadAsCSV

Spec == Init /\ [][Next]_vars

\* the FileReader and Papa.parse callbacks of an in-flight call do fire
FairSpec ==
    /\ Spec
    /\ WF_vars(readExcelFileLoaded \/ readExcelFileFailed)
    /\ WF_vars(readCSVFileLoaded \/ readCSVFileFailed)

----------------------------------------------------------------------------
(* Properties of matchData *)

classroomOf(row) == row["Classroom"]

isSentinel(c) == c = NotFound \/ c = FoundButNoClassroom

\* s without its leading and trailing white space, by position
core(s) ==
    LET dark == {i \in 1..Len(s) : ~isWhiteSpace(s[i])}
    IN  IF dark = {} THEN <<>>
        ELSE SubSeq(s, CHOOSE i \in dark : \A j \in dark : i <= j,
                       CHOOSE i \in dark : \A j \in dark : i >= j)

\* a and b differ at most in letter case and leading/trailing white space
sameName(a, b) ==
    /\ a # Undef /\ b # Undef
    /\ Len(core(a)) = Len(core(b))
    /\ \A i \in 1..Len(core(a)) :
          toLowerChar(core(a)[i]) = toLowerChar(core(b)[i])

\* the reference rows whose Corrected Name is the student's Full Name
namesakes(student, refData) ==
    {j \in 1..Len(refData) :
        sameName(student["Full Name"], Get(refData[j], "Corrected Name"))}

\* C1: a primary row that matches a reference row gets that row's Classroom
\* field when it is non-empty, and 'Found but no classroom' only when that
\* field is empty or absent.
C1_ClassroomFieldOfMatch ==
    stage = "matched" =>
        \A i \in 1..Len(inMain) :
            LET hits == namesakes(inMain[i], inRef)
                first == CHOOSE j \in hits : \A k \in hits : j <= k
            IN  hits # {} =>
                    classroomOf(Val(matchedData)[i]) =
                        OrElse(Get(inRef[first], "Classroom"),
                               FoundButNoClassroom)

C8_FirstMatchWins ==
    stage = "matched" =>
        \A i \in 1..Len(inMain) :
            LET hits == namesakes(inMain[i], inRef)
                first == CHOOSE j \in hits : \A k \in hits : j <= k
            IN  hits # {} =>
                    classroomOf(Val(matchedData)[i]) =
                        classroomOf(matchData(<<inMain[i]>>,
                                              <<inRef[first]>>)[1])

C8_Witness ==
    /\ stage = "matched"
    /\ \E i \in 1..Len(inMain) :
          LET hits == namesakes(inMain[i], inRef)
          IN  /\ Cardinality(hits) = 2
              /\ \E j, k \in hits :
                    /\ j < k
                    /\ ~Truthy(Get(inRef[j], "classroom"))
                    /\ ~Truthy(Get(inRef[j], "Classroom"))
                    /\ Truthy(Get(inRef[k], "classroom"))
              /\ classroomOf(Val(matchedData)[i]) = FoundButNoClassroom

----------------------------------------------------------------------------
(* Properties of sortedData *)

isNotFoundRow(row) == classroomOf(row) = NotFound
isNoClassroomRow(row) == classroomOf(row) = FoundButNoClassroom

C5_SentinelRowsKeepOrder ==
    stage = "sorted" =>
        /\ SelectSeq(Val(sortedOut), isNotFoundRow)
              = SelectSeq(Val(matchedData), isNotFoundRow)
        /\ SelectSeq(Val(sortedOut), isNoClassroomRow)
              = SelectSeq(Val(matchedData), isNoClassroomRow)

----------------------------------------------------------------------------
(* Properties of downloadAsCSV *)

\* C9: a non-sentinel Classroom is emitted between =" and ", a sentinel
\* unchanged, and the other four fields unchanged, in the sorted order.
C9_ExportWrapsClassroom ==
    stage = "downloaded" =>
        /\ Len(Val(formattedData)) = Len(Val(sortedOut))
        /\ \A i \in 1..Len(Val(sortedOut)) :
              LET in == Val(sortedOut)[i]
                  out == Val(formattedData)[i]
                  c == classroomOf(in)
                  e == classroomOf(out)
              IN  /\ \A key \in MainKeys : out[key] = in[key]
                  /\ isSentinel(c) => e = c
                  /\ ~isSentinel(c) =>
                        /\ Len(e) = Len(c) + 3
                        /\ e[1] = "=" /\ e[2] = Quote /\ e[Len(e)] = Quote
                        /\ SubSeq(e, 3, Len(e) - 1) = c

C9_Witness ==
    /\ stage = "downloaded"
    /\ \E i, j \in 1..Len(Val(sortedOut)) :
          /\ isSentinel(classroomOf(Val(sortedOut)[i]))
          /\ ~isSentinel(classroomOf(Val(sortedOut)[j]))
          /\ classroomOf(Val(formattedData)[j]) # classroomOf(Val(sortedOut)[j])

classroomColumn(rows) == [i \in 1..Len(rows) |-> classroomOf(rows[i])]

\* C7: exporting, re-importing the export as the main CSV with the same
\* reference data, and exporting again gives every row the same classroom.
C7_RoundTrip ==
    (stage = "downloaded" /\ pass = 2) =>
        /\ classroomColumn(Val(formattedData)) = classroomColumn(Val(firstFormatted))
        /\ {Val(formattedData)[i] : i \in 1..Len(Val(formattedData))}
              = {Val(firstFormatted)[i] : i \in 1..Len(Val(firstFormatted))}

C7_Witness ==
    /\ stage = "downloaded"
    /\ pass = 2
    /\ \E i, j \in 1..Len(Val(formattedData)) :
          /\ ~isSentinel(classroomOf(Val(sortedOut)[i]))
          /\ \E p \in 1..Len(Val(sortedOut)[i]["Full Name"]) :
                Val(sortedOut)[i]["Full Name"][p] = Quote
          /\ isSentinel(classroomOf(Val(sortedOut)[j]))

----------------------------------------------------------------------------
(* Properties of the page *)

\* the non-empty classroom cells of a list of reference rows
classroomCells(refData) ==
    {Get(refData[j], k) : j \in 1..Len(refData), k \in {"Classroom", "classroom"}}
        \ {Undef, Empty}

shownLists == {Val(processedData), Val(sortedData(engine, processedData))}

\* C3: after a successful process action every row of processedData and of
\* the sorted view has a Classroom that is a non-empty classroom string of the
\* reference data, 'Found but no classroom' or 'Not Found', never empty.
C3_ClassroomAlwaysSet ==
    processedData # Null =>
        \A rows \in shownLists :
            \A i \in 1..Len(rows) :
                /\ "Classroom" \in DOMAIN rows[i]
                /\ classroomOf(rows[i]) # Empty
                /\ \/ isSentinel(classroomOf(rows[i]))
                   \/ \E file \in RefFiles :
                         classroomOf(rows[i]) \in classroomCells(file.rows)
                /\ lastOutcome = "success" =>
                      \/ isSentinel(classroomOf(rows[i]))
                      \/ classroomOf(rows[i])
                            \in classroomCells(Val(referenceData))

C3_Witness ==
    /\ lastOutcome = "success"
    /\ pc = "idle"
    /\ \E i, j, k \in 1..Len(Val(processedData)) :
          /\ isNotFoundRow(Val(processedData)[i])
          /\ isNoClassroomRow(Val(processedData)[j])
          /\ ~isSentinel(classroomOf(Val(processedData)[k]))

\* C6: after a failed process action an error is set and no results are
\* shown: there is no sorted view to render or download.
C6_NoResultsAfterFailure ==
    lastOutcome \in {"failed", "missing"} =>
        sortedData(engine, processedData) = Null

\* C10: a process action started with both files completes; isProcessing is
\* true exactly while one is in flight, so it is false on completion; the
\* missing-file branch leaves isProcessing false.
C10_ProcessingEnds ==
    /\ [](isProcessing <=> pc # "idle")
    /\ (pc # "idle") ~> (pc = "idle" /\ ~isProcessing)
    /\ [][processFilesMissing => (~isProcessing /\ ~isProcessing')]_vars

C10_Witness ==
    /\ lastOutcome = "failed"
    /\ pc = "idle"
    /\ ~isProcessing
    /\ error = "Error processing files"

====
